---- MODULE Spec2Model ----
(***************************************************************************)
(* Model of the Infini-Attention demo: src/src/main.rs (the segment        *)
(* orchestrator), src/src/infini_attention_gpu.rs (the per-head memory and *)
(* the forward pass), src/src/gpu_utils.rs (device buffers, download) and  *)
(* src/src/file_reader.rs (opening the input).                             *)
(*                                                                         *)
(* Floats are modelled as integers (the embedding table holds -1, 0, 1);   *)
(* an average is the pair <<sum, count>>.  A Vec<f32> of shape (n x d) is  *)
(* a sequence of length n*d, element (row, c) at index row*d + c + 1.      *)
(***************************************************************************)
EXTENDS Integers, Sequences, FiniteSets, TLC

\* ---- bounds of the model ------------------------------------------------
MaxLen == 3        \* longest token stream
MaxTok == 1        \* token ids are 0..MaxTok
MaxSeg == 2        \* --segment-size in 0..MaxSeg
MaxDim == 6        \* --embed-dim in 0..MaxDim
MaxVocab == 1      \* --vocab-size in 0..MaxVocab
MaxHeads == 2      \* --heads in 0..MaxHeads
MaxSeed == 0       \* draws of the random embedding table

VARIABLES
    args,          \* Args: segment_size, embed_dim, vocab_size, heads, gpu
    seed,          \* the draw of the random embedding table
    pc,            \* position of main
    failure,       \* why main stopped early ("none" while it has not)
    infini_gpu,    \* Option<InfiniAttentionGpu>: <<>> or <<record>>
    token_buffer,  \* Vec<usize>
    global_sum,    \* Array1<f32> of length d_model
    global_count,  \* usize
    report,        \* what main printed at the end
    consumed,      \* history: the tokens the tokenizer has yielded so far
    dispatched,    \* history: one record per call of process_segment_*
    allocs,        \* history: number of device buffers ever created
    live_buffers,  \* number of device buffers alive between two steps
    input,         \* the reader convert_to_text returned and its converter
    bufs,          \* the device buffers that are alive
    host,          \* position of the host inside a forward pass, or "main"
    pass,          \* the forward pass in progress (its number when idle)
    device,        \* the device: its queue, the staging buffer, its mapping
    channel        \* the oneshot channel of download_buffer

vars == <<args, seed, pc, failure, infini_gpu, token_buffer, global_sum,
          global_count, report, consumed, dispatched, allocs, live_buffers,
          input, bufs, host, pass, device, channel>>

\* the state of a forward pass taken step by step
passVars == <<host, pass, device, channel>>

Tokens == 0..MaxTok

Min(a, b) == IF a < b THEN a ELSE b

Zeros(n) == [i \in 1..n |-> 0]

\* ---- main.rs: embedding table ------------------------------------------
\* Array2::random((vocab_size, d_model), Uniform(-0.1, 0.1)): one of the
\* draws, entries scaled to -1, 0, 1.  Row r, column c (both 0-based).
EmbeddingTable(s, vocab_size, d_model) ==
    [r \in 0..(vocab_size - 1) |->
        [c \in 0..(d_model - 1) |-> ((s + 2 * r + c + 1) % 3) - 1]]

\* ---- main.rs: process_segment_cpu / the embedding loop of _gpu ----------
\* x_seg[i * d_model + c] = embedding_table[[tok % vocab_size, c]]
EmbedSegment(tokens, table, vocab_size, d_model) ==
    [j \in 1..(Len(tokens) * d_model) |->
        table[tokens[((j - 1) \div d_model) + 1] % vocab_size][(j - 1) % d_model]]

\* tok_id % embedding_table.len_of(Axis(0)) panics when the table has no row
RemByZero(tokens, vocab_size) == Len(tokens) > 0 /\ vocab_size = 0

ProcessSegmentCpu(tokens, table, vocab_size, d_model) ==
    EmbedSegment(tokens, table, vocab_size, d_model)

\* ---- gpu_utils.rs -------------------------------------------------------
\* create_empty_storage_buffer: wgpu zero-initialises a new buffer
CreateEmptyStorageBuffer(len) == Zeros(len)

\* download_buffer that returns the staging bytes whatever map_async said
DownloadBuffer_IgnoreMap(buffer, len, map_ok) ==
    [status |-> "ok", data |-> SubSeq(buffer, 1, len)]

\* download_buffer: the result of map_async is received and dropped, then
\* get_mapped_range() is called; on a refused mapping that call panics.
DownloadBuffer(buffer, len, map_ok) ==
    IF map_ok
    THEN [status |-> "ok", data |-> SubSeq(buffer, 1, len)]
    ELSE [status |-> "map_refused", data |-> <<>>]

\* ---- infini_attention_gpu.rs -------------------------------------------
\* new() that starts the gating parameter at 1.0
NewInfiniAttentionGpu_GateOne(num_heads, d_key, d_value, d_model) ==
    [num_heads |-> num_heads, d_key |-> d_key, d_value |-> d_value,
     d_model |-> d_model,
     memory_matrices |-> [h \in 1..num_heads |-> Zeros(d_key * d_value)],
     memory_z |-> [h \in 1..num_heads |-> Zeros(d_key)],
     gate |-> [h \in 1..num_heads |-> 1]]

\* InfiniAttentionGpu::new
NewInfiniAttentionGpu(num_heads, d_key, d_value, d_model) ==
    [num_heads |-> num_heads, d_key |-> d_key, d_value |-> d_value,
     d_model |-> d_model,
     memory_matrices |-> [h \in 1..num_heads |-> Zeros(d_key * d_value)],
     memory_z |-> [h \in 1..num_heads |-> Zeros(d_key)],
     gate |-> [h \in 1..num_heads |-> 0]]

\* exp(x) in thousandths, for the small integers a gate parameter takes
ExpMilli(x) ==
    CASE x <= -2 -> 135
      [] x = -1 -> 368
      [] x = 0 -> 1000
      [] x = 1 -> 2718
      [] OTHER -> 7389

\* gate_val = 1.0 / (1.0 + (-gate).exp()), in thousandths
GateVal(raw) == (1000 * 1000) \div (1000 + ExpMilli(-raw))

\* a head body whose update kernel lets the normalizer decay
HeadBody_Decay(infini, h) ==
    [infini EXCEPT !.memory_z[h] = [a \in DOMAIN @ |-> @[a] - 1]]

\* a head body whose kernel writes into the first head's normalizer
HeadBody_WriteFirst(infini, h) ==
    [infini EXCEPT !.memory_z[1] = [a \in DOMAIN @ |-> @[a] + 1]]

\* The body of the head loop of forward for head h: it computes gate_val
\* and nothing else; the kernels (local attention, retrieval, combine,
\* memory update) are comments.  The state is unchanged.
HeadBody(infini, h) == infini

RECURSIVE HeadLoopTo(_, _)
\* for head_idx in 0..h
HeadLoopTo(infini, h) ==
    IF h = 0 THEN infini ELSE HeadBody(HeadLoopTo(infini, h - 1), h)

HeadLoop(infini) == HeadLoopTo(infini, infini.num_heads)

\* the gate_val each iteration of the head loop computes
HeadGateVals(infini) ==
    [h \in 1..infini.num_heads |-> GateVal(infini.gate[h])]

\* forward that sizes the final output as one chunk per row
ForwardOutputBuf_Chunk(infini, x_seg, n) ==
    CreateEmptyStorageBuffer(n * (infini.d_model \div 3))

\* forward: final_output_buf is a fresh buffer of n * d_model elements that
\* no kernel writes; it is downloaded and returned.
ForwardOutputBuf(infini, x_seg, n) == CreateEmptyStorageBuffer(n * infini.d_model)

Forward(infini, x_seg, n, map_ok) ==
    LET buf == ForwardOutputBuf(infini, x_seg, n)
        dl == DownloadBuffer(buf, Len(buf), map_ok)
    IN  [status |-> dl.status, data |-> dl.data, infini |-> HeadLoop(infini),
         gates |-> HeadGateVals(infini)]

\* buffers created in one forward pass: x_seg, q, k, v, local_context,
\* memory_context, final_output, and the staging buffer of download_buffer
ForwardBuffers == 8

\* ---- main.rs: the orchestrator -----------------------------------------
\* main without the assertion on embed_dim
EmbedDimOk_Any(d_model) == TRUE

EmbedDimOk(d_model) == d_model % 3 = 0

\* `>` in place of `>=` in the test of the buffer length
SegmentReady_Late(buf, seg_size) == Len(buf) > seg_size

SegmentReady(buf, seg_size) == Len(buf) >= seg_size

\* a loop body that forgets to drain the consumed prefix
Drain_Keep(buf, seg_size) == buf

\* token_buffer.drain(0..seg_size)
Drain(buf, seg_size) == SubSeq(buf, seg_size + 1, Len(buf))

\* main without the leftover block
HasLeftover_Never(buf) == FALSE

HasLeftover(buf) == buf # <<>>

RECURSIVE ColumnSum(_, _, _, _)
\* sum over row_idx in 0..rows of output[row_idx * d_model + c]  (c 0-based)
ColumnSum(output, rows, d_model, c) ==
    IF rows = 0 THEN 0
    ELSE ColumnSum(output, rows - 1, d_model, c)
         + output[(rows - 1) * d_model + c + 1]

\* for row_idx in 0..rows { for c in 0..d_model { global_sum[c] += ... } }
Accumulate(sum, output, rows, d_model) ==
    [c \in 1..d_model |-> sum[c] + ColumnSum(output, rows, d_model, c - 1)]

AccumulateCount(count, rows) == count + rows

\* output[row_idx * d_model + c] panics when the index is past the end
IndexInBounds(output, rows, d_model) == rows * d_model <= Len(output)

\* a final report that divides without testing the count
FinalReport_Always(sum, count, d_model) ==
    [kind |-> "avg", count |-> count,
     avg |-> [i \in 1..Min(10, d_model) |-> <<sum[i], count>>]]

\* the final report: the average (first 10 dims) or "No tokens processed."
FinalReport(sum, count, d_model) ==
    IF count > 0
    THEN [kind |-> "avg", count |-> count,
          avg |-> [i \in 1..Min(10, d_model) |-> <<sum[i], count>>]]
    ELSE [kind |-> "empty", count |-> count, avg |-> <<>>]

NoReport == [kind |-> "none", count |-> 0, avg |-> <<>>]

\* One call of process_segment_gpu / process_segment_cpu on seg.
ProcessSegment(seg, map_ok) ==
    LET d == args.embed_dim
        table == EmbeddingTable(seed, args.vocab_size, d)
    IN  IF RemByZero(seg, args.vocab_size)
        THEN [status |-> "rem_by_zero", data |-> <<>>, x_seg |-> <<>>,
              infini |-> infini_gpu, forward |-> FALSE, gates |-> <<>>]
        ELSE IF infini_gpu # <<>>
        THEN LET x == EmbedSegment(seg, table, args.vocab_size, infini_gpu[1].d_model)
                 f == Forward(infini_gpu[1], x, Len(seg), map_ok)
             IN  [status |-> f.status, data |-> f.data, x_seg |-> x,
                  infini |-> <<f.infini>>, forward |-> TRUE,
                  gates |-> f.gates]
        ELSE [status |-> "ok",
              data |-> ProcessSegmentCpu(seg, table, args.vocab_size, d),
              x_seg |-> EmbedSegment(seg, table, args.vocab_size, d),
              infini |-> infini_gpu, forward |-> FALSE, gates |-> <<>>]

\* the history record of one dispatch
DispatchRecord(seg, r, map_ok) ==
    [tokens |-> seg, ok |-> r.status = "ok", output |-> r.data,
     x_seg |-> r.x_seg, gpu |-> r.forward,
     map_refused |-> r.forward /\ ~map_ok, gates |-> r.gates,
     mem_before |-> infini_gpu, mem_after |-> r.infini]

\* ---- device buffers and the steps of one forward pass -------------------
\* the buffers InfiniAttentionGpu::new creates: one memory matrix and one
\* normalizer per head
MemoryBuffers(num_heads) ==
    {<<"mem_matrix", h>> : h \in 1..num_heads}
        \cup {<<"mem_z", h>> : h \in 1..num_heads}

\* the buffers forward and download_buffer create, by their labels
PassLabels ==
    {"x_seg_buf", "q_buf", "k_buf", "v_buf", "local_context_buf",
     "memory_context_buf", "final_output_buf", "staging"}

\* forward that keeps its final output buffer in self
DropLocals_KeepOutput(b) ==
    {x \in b : x[1] \notin (PassLabels \ {"final_output_buf"})}

\* the end of forward: its local Buffer values are dropped
DropLocals(b) == {x \in b : x[1] \notin PassLabels}

\* the host's program order through forward and download_buffer
HostOrder ==
    <<"x_seg_buf", "q_buf", "k_buf", "v_buf", "local_context_buf",
      "memory_context_buf", "heads", "final_output_buf", "staging",
      "submit", "map_async", "poll", "receive", "get_mapped_range",
      "return", "main">>

HostIndex(h) == CHOOSE i \in 1..Len(HostOrder) : HostOrder[i] = h

\* download_buffer that requests the mapping before it submits the copy
NextHost_MapFirst(h) ==
    CASE h = "staging" -> "map_async"
      [] h = "map_async" -> "submit"
      [] h = "submit" -> "poll"
      [] OTHER -> HostOrder[HostIndex(h) + 1]

\* forward that does not wait for the download it submitted
NextHost_NoWait(h) ==
    IF h = "submit" THEN "return" ELSE HostOrder[HostIndex(h) + 1]

\* the statement that follows statement h
NextHost(h) == HostOrder[HostIndex(h) + 1]

IdlePass(no) ==
    [no |-> no, seg |-> <<>>, rest |-> <<>>, next_pc |-> "none",
     x_seg |-> <<>>, head_idx |-> 0, gates |-> <<>>, mem_before |-> <<>>,
     received |-> FALSE, result |-> <<>>]

IdleDevice ==
    [queue |-> <<>>, map |-> "none", final_output |-> <<>>,
     staging |-> [data |-> <<>>, copied |-> FALSE], submitted |-> 0]

\* the device runs the first command of its queue: the copy of the final
\* output into the staging buffer
ExecuteFirst(dev) ==
    [dev EXCEPT !.queue = Tail(@),
                !.staging = [data |-> dev.final_output, copied |-> TRUE]]

RECURSIVE ExecuteAll(_)
ExecuteAll(dev) ==
    IF dev.queue = <<>> THEN dev ELSE ExecuteAll(ExecuteFirst(dev))

\* device.poll(Maintain::Wait): the submitted work runs to its end, then a
\* pending map request is resolved
PollWait(dev, map_ok) ==
    LET done == ExecuteAll(dev)
    IN  IF done.map = "pending"
        THEN [done EXCEPT !.map = IF map_ok THEN "mapped" ELSE "refused"]
        ELSE done

\* ---- file_reader.rs -----------------------------------------------------
\* the lower-cased extension of the path: txt, pdf, docx, or anything else
Extensions == {"txt", "pdf", "docx", "other"}

NoInput == [kind |-> "none", spawns |-> 0, exit |-> "none"]

\* convert_to_text: the reader it returns, or the error.  started says
\* whether File::open / Command::spawn succeeded.
ConvertResult(ext, started) ==
    IF ext \in {"pdf", "docx"}
    THEN IF started
         THEN [ok |-> TRUE,
               input |-> [kind |-> "child", spawns |-> 1, exit |-> "running"]]
         ELSE [ok |-> FALSE,
               input |-> [kind |-> "none", spawns |-> 1, exit |-> "not_started"]]
    ELSE IF started
         THEN [ok |-> TRUE,
               input |-> [kind |-> "file", spawns |-> 0, exit |-> "none"]]
         ELSE [ok |-> FALSE, input |-> NoInput]

\* the reader when lines() reaches the end: a child has exited, a file has
\* no process behind it
ReaderAtEof(in, exit_ok) ==
    IF in.kind = "child"
    THEN [in EXCEPT !.exit = IF exit_ok THEN "zero" ELSE "nonzero"]
    ELSE in

Init ==
    /\ args \in [segment_size : 0..MaxSeg, embed_dim : 0..MaxDim,
                 vocab_size : 0..MaxVocab, heads : 0..MaxHeads,
                 gpu : BOOLEAN]
    /\ seed \in 0..MaxSeed
    /\ pc = "gpu_context"
    /\ failure = "none"
    /\ infini_gpu = <<>>
    /\ token_buffer = <<>>
    /\ global_sum = <<>>
    /\ global_count = 0
    /\ report = NoReport
    /\ consumed = <<>>
    /\ dispatched = <<>>
    /\ allocs = 0
    /\ live_buffers = 0
    /\ input = NoInput
    /\ bufs = {}
    /\ host = "main"
    /\ pass = IdlePass(0)
    /\ device = IdleDevice
    /\ channel = <<>>

\* main step 1: GpuContext::new() when --gpu; it may find no adapter.
GpuContextNew ==
    /\ pc = "gpu_context"
    /\ \E available \in BOOLEAN :
         IF args.gpu /\ ~available
         THEN pc' = "error" /\ failure' = "DeviceUnavailable"
         ELSE pc' = "convert" /\ failure' = failure
    /\ UNCHANGED <<args, seed, infini_gpu, token_buffer, global_sum,
                   global_count, report, consumed, dispatched, allocs,
                   live_buffers, input, bufs>>
    /\ UNCHANGED passVars

\* main step 2: convert_to_text(&args.input)?  A .pdf or .docx path spawns
\* pdftotext or pandoc and reads its stdout; any other path is opened as a
\* file.  The spawn or the open may fail.
ConvertToText ==
    /\ pc = "convert"
    /\ \E ext \in Extensions, started \in BOOLEAN :
         LET r == ConvertResult(ext, started)
         IN  /\ input' = r.input
             /\ IF r.ok
                THEN pc' = "build" /\ failure' = failure
                ELSE pc' = "error" /\ failure' = "ConversionFailure"
    /\ UNCHANGED <<args, seed, infini_gpu, token_buffer, global_sum,
                   global_count, report, consumed, dispatched, allocs,
                   live_buffers, bufs>>
    /\ UNCHANGED passVars

\* main steps 3 and 4: the assertion on embed_dim, InfiniAttentionGpu::new,
\* the embedding table and the accumulators.
Build ==
    /\ pc = "build"
    /\ IF ~EmbedDimOk(args.embed_dim)
       THEN /\ pc' = "panic"
            /\ failure' = "embed_dim_assert"
            /\ UNCHANGED <<infini_gpu, global_sum, allocs, live_buffers,
                           bufs>>
       ELSE /\ pc' = "streaming"
            /\ failure' = failure
            /\ global_sum' = Zeros(args.embed_dim)
            /\ IF args.gpu
               THEN /\ infini_gpu' = <<NewInfiniAttentionGpu(args.heads,
                                          args.embed_dim \div 3,
                                          args.embed_dim \div 3,
                                          args.embed_dim)>>
                    /\ allocs' = allocs + 2 * args.heads
                    /\ live_buffers' = live_buffers + 2 * args.heads
                    /\ bufs' = bufs \cup MemoryBuffers(args.heads)
               ELSE UNCHANGED <<infini_gpu, allocs, live_buffers, bufs>>
    /\ UNCHANGED <<args, seed, token_buffer, global_count, report, consumed,
                   dispatched, input>>
    /\ UNCHANGED passVars

\* the effect of one dispatch of seg on the orchestrator's state, where buf
\* is the token buffer at the call and rest the buffer after the drain
Dispatch(seg, buf, rest, map_ok, next_pc) ==
    LET r == ProcessSegment(seg, map_ok)
    IN  /\ dispatched' = Append(dispatched, DispatchRecord(seg, r, map_ok))
        /\ allocs' = allocs + (IF r.forward THEN ForwardBuffers ELSE 0)
        /\ UNCHANGED live_buffers
        /\ infini_gpu' = r.infini
        /\ IF r.status = "ok" /\ IndexInBounds(r.data, Len(seg), args.embed_dim)
           THEN /\ global_sum' = Accumulate(global_sum, r.data, Len(seg),
                                            args.embed_dim)
                /\ global_count' = AccumulateCount(global_count, Len(seg))
                /\ token_buffer' = rest
                /\ pc' = next_pc
                /\ failure' = failure
           ELSE /\ pc' = "panic"
                /\ failure' = IF r.status = "ok" THEN "index_out_of_bounds"
                               ELSE r.status
                /\ token_buffer' = buf
                /\ UNCHANGED <<global_sum, global_count>>

\* main step 5, one iteration of `for t in tokens`: push, and process a
\* segment when the buffer has reached seg_size.
HandleToken ==
    /\ pc = "streaming"
    /\ Len(consumed) < MaxLen
    /\ \E t \in Tokens, map_ok \in BOOLEAN :
         LET pushed == Append(token_buffer, t)
             seg_size == args.segment_size
         IN  /\ consumed' = Append(consumed, t)
             /\ IF SegmentReady(pushed, seg_size)
                THEN Dispatch(SubSeq(pushed, 1, seg_size), pushed,
                              Drain(pushed, seg_size), map_ok, "streaming")
                ELSE /\ token_buffer' = pushed
                     /\ UNCHANGED <<pc, failure, infini_gpu, global_sum,
                                    global_count, dispatched, allocs,
                                    live_buffers>>
    /\ UNCHANGED <<args, seed, report, input, bufs>>
    /\ UNCHANGED passVars

\* `let line = line_result?;` : reading a line fails
LineError ==
    /\ pc = "streaming" /\ host = "main"
    /\ pc' = "error"
    /\ failure' = "io"
    /\ UNCHANGED <<args, seed, infini_gpu, token_buffer, global_sum,
                   global_count, report, consumed, dispatched, allocs,
                   live_buffers, input, bufs>>
    /\ UNCHANGED passVars

\* end of the stream: the leftover segment, then the final report.  The
\* stdout of a converter ends when the converter exits, with any status;
\* main never waits for the child nor reads its status.
EndOfStream ==
    /\ pc = "streaming"
    /\ \E exit_ok \in BOOLEAN : input' = ReaderAtEof(input, exit_ok)
    /\ IF HasLeftover(token_buffer)
       THEN \E map_ok \in BOOLEAN :
              Dispatch(token_buffer, token_buffer, token_buffer, map_ok,
                       "done")
       ELSE /\ pc' = "done"
            /\ UNCHANGED <<failure, infini_gpu, token_buffer, global_sum,
                           global_count, dispatched, allocs, live_buffers>>
    /\ report' = IF pc' = "done"
                 THEN FinalReport(global_sum', global_count', args.embed_dim)
                 ELSE report
    /\ UNCHANGED <<args, seed, consumed, bufs>>
    /\ UNCHANGED passVars

Next ==
    \/ GpuContextNew
    \/ ConvertToText
    \/ Build
    \/ HandleToken
    \/ LineError
    \/ EndOfStream

Spec == Init /\ [][Next]_vars

\* ---- a device run, one statement of forward at a time -------------------
\* The same program as Spec on the device path, from the state main is in
\* when it enters its loop (step 5), with process_segment_gpu, forward and
\* download_buffer taken statement by statement and the device executing
\* its queue on its own.

\* main has built the attention state and opened its input
InitPass ==
    /\ args \in [segment_size : 0..MaxSeg,
                 embed_dim : {d \in 0..MaxDim : d % 3 = 0},
                 vocab_size : 0..MaxVocab, heads : 0..MaxHeads,
                 gpu : {TRUE}]
    /\ seed \in 0..MaxSeed
    /\ pc = "streaming"
    /\ failure = "none"
    /\ infini_gpu = <<NewInfiniAttentionGpu(args.heads, args.embed_dim \div 3,
                                            args.embed_dim \div 3,
                                            args.embed_dim)>>
    /\ token_buffer = <<>>
    /\ global_sum = Zeros(args.embed_dim)
    /\ global_count = 0
    /\ report = NoReport
    /\ consumed = <<>>
    /\ dispatched = <<>>
    /\ allocs = 2 * args.heads
    /\ live_buffers = 2 * args.heads
    /\ input = ConvertResult("txt", TRUE).input
    /\ bufs = MemoryBuffers(args.heads)
    /\ host = "main"
    /\ pass = IdlePass(0)
    /\ device = IdleDevice
    /\ channel = <<>>

\* the history record of a pass that ended with status
PassRecord(status, output, refused) ==
    [tokens |-> pass.seg, ok |-> status = "ok", output |-> output,
     x_seg |-> pass.x_seg, gpu |-> TRUE, map_refused |-> refused,
     gates |-> pass.gates, mem_before |-> pass.mem_before,
     mem_after |-> infini_gpu]

\* block_on(process_segment_gpu(seg, ..)): the embeddings are built on the
\* host (or the remainder by zero panics), then forward starts.
BeginPass(seg, pushed, rest, next_pc) ==
    /\ token_buffer' = pushed
    /\ IF RemByZero(seg, args.vocab_size)
       THEN /\ pc' = "panic"
            /\ failure' = "rem_by_zero"
            /\ dispatched' = Append(dispatched,
                   [tokens |-> seg, ok |-> FALSE, output |-> <<>>,
                    x_seg |-> <<>>, gpu |-> FALSE, map_refused |-> FALSE,
                    gates |-> <<>>, mem_before |-> infini_gpu,
                    mem_after |-> infini_gpu])
            /\ UNCHANGED <<host, pass>>
       ELSE /\ pass' = [IdlePass(pass.no + 1) EXCEPT
                           !.seg = seg, !.rest = rest, !.next_pc = next_pc,
                           !.x_seg = EmbedSegment(seg,
                               EmbeddingTable(seed, args.vocab_size,
                                              infini_gpu[1].d_model),
                               args.vocab_size, infini_gpu[1].d_model),
                           !.mem_before = infini_gpu]
            /\ host' = HostOrder[1]
            /\ UNCHANGED <<pc, failure, dispatched>>
    /\ UNCHANGED <<infini_gpu, global_sum, global_count, allocs,
                   live_buffers, bufs, device, channel>>

\* one iteration of `for t in tokens` up to the call of process_segment_gpu
PushToken ==
    /\ pc = "streaming" /\ host = "main"
    /\ Len(consumed) < MaxLen
    /\ \E t \in Tokens :
         LET pushed == Append(token_buffer, t)
             seg_size == args.segment_size
         IN  /\ consumed' = Append(consumed, t)
             /\ IF SegmentReady(pushed, seg_size)
                THEN BeginPass(SubSeq(pushed, 1, seg_size), pushed,
                               Drain(pushed, seg_size), "streaming")
                ELSE /\ token_buffer' = pushed
                     /\ UNCHANGED <<pc, failure, infini_gpu, global_sum,
                                    global_count, dispatched, allocs,
                                    live_buffers, bufs, host, pass, device,
                                    channel>>
    /\ UNCHANGED <<args, seed, report, input>>

\* the end of the stream up to the call of process_segment_gpu, or the
\* final report when nothing is left over
StreamEnd ==
    /\ pc = "streaming" /\ host = "main"
    /\ \E exit_ok \in BOOLEAN : input' = ReaderAtEof(input, exit_ok)
    /\ IF HasLeftover(token_buffer)
       THEN /\ BeginPass(token_buffer, token_buffer, token_buffer, "done")
            /\ UNCHANGED report
       ELSE /\ pc' = "done"
            /\ report' = FinalReport(global_sum, global_count, args.embed_dim)
            /\ UNCHANGED <<failure, infini_gpu, token_buffer, global_sum,
                           global_count, dispatched, allocs, live_buffers,
                           bufs, host, pass, device, channel>>
    /\ UNCHANGED <<args, seed, consumed>>

\* create_storage_buffer / create_empty_storage_buffer / create_buffer: the
\* host creates the buffer its statement names
PassCreate ==
    /\ pc = "streaming" /\ host \in PassLabels
    /\ bufs' = bufs \cup {<<host, 0>>}
    /\ allocs' = allocs + 1
    /\ live_buffers' = Cardinality(bufs')
    /\ device' =
         CASE host = "final_output_buf" ->
                [device EXCEPT !.final_output =
                    ForwardOutputBuf(infini_gpu[1], pass.x_seg, Len(pass.seg))]
           [] host = "staging" ->
                [device EXCEPT
                    !.staging = [data |-> Zeros(Len(pass.seg)
                                                * infini_gpu[1].d_model),
                                 copied |-> FALSE],
                    !.map = "unmapped"]
           [] OTHER -> device
    /\ host' = NextHost(host)
    /\ UNCHANGED <<args, seed, pc, failure, infini_gpu, token_buffer,
                   global_sum, global_count, report, consumed, dispatched,
                   input, pass, channel>>

\* one iteration of the head loop
HeadStep ==
    /\ pc = "streaming" /\ host = "heads"
    /\ pass.head_idx < infini_gpu[1].num_heads
    /\ LET h == pass.head_idx + 1
       IN  /\ infini_gpu' = <<HeadBody(infini_gpu[1], h)>>
           /\ pass' = [pass EXCEPT
                          !.head_idx = h,
                          !.gates = Append(@, GateVal(infini_gpu[1].gate[h]))]
    /\ UNCHANGED <<args, seed, pc, failure, token_buffer, global_sum,
                   global_count, report, consumed, dispatched, allocs,
                   live_buffers, input, bufs, host, device, channel>>

\* the head loop ends
HeadsDone ==
    /\ pc = "streaming" /\ host = "heads"
    /\ pass.head_idx = infini_gpu[1].num_heads
    /\ host' = NextHost(host)
    /\ UNCHANGED <<args, seed, pc, failure, infini_gpu, token_buffer,
                   global_sum, global_count, report, consumed, dispatched,
                   allocs, live_buffers, input, bufs, pass, device, channel>>

\* encoder.copy_buffer_to_buffer(..); queue.submit(..)
Submit ==
    /\ pc = "streaming" /\ host = "submit"
    /\ device' = [device EXCEPT !.queue = Append(@, "copy"),
                                !.submitted = @ + 1]
    /\ host' = NextHost(host)
    /\ UNCHANGED <<args, seed, pc, failure, infini_gpu, token_buffer,
                   global_sum, global_count, report, consumed, dispatched,
                   allocs, live_buffers, input, bufs, pass, channel>>

\* slice.map_async(MapMode::Read, callback)
MapAsync ==
    /\ pc = "streaming" /\ host = "map_async"
    /\ device' = [device EXCEPT !.map = "pending"]
    /\ host' = NextHost(host)
    /\ UNCHANGED <<args, seed, pc, failure, infini_gpu, token_buffer,
                   global_sum, global_count, report, consumed, dispatched,
                   allocs, live_buffers, input, bufs, pass, channel>>

\* the device runs a submitted command, whenever it gets to it
DeviceExecute ==
    /\ device.queue # <<>>
    /\ device' = ExecuteFirst(device)
    /\ UNCHANGED <<args, seed, pc, failure, infini_gpu, token_buffer,
                   global_sum, global_count, report, consumed, dispatched,
                   allocs, live_buffers, input, bufs, host, pass, channel>>

\* device.poll(Maintain::Wait); the callback of a resolved map request
\* sends its result into the channel
Poll ==
    /\ pc = "streaming" /\ host = "poll"
    /\ \E map_ok \in BOOLEAN : device' = PollWait(device, map_ok)
    /\ channel' = IF device.map = "pending" THEN <<device'.map>> ELSE channel
    /\ host' = NextHost(host)
    /\ UNCHANGED <<args, seed, pc, failure, infini_gpu, token_buffer,
                   global_sum, global_count, report, consumed, dispatched,
                   allocs, live_buffers, input, bufs, pass>>

\* rx.receive().await: the host waits for the callback's message and drops it
Receive ==
    /\ pc = "streaming" /\ host = "receive"
    /\ channel # <<>>
    /\ channel' = <<>>
    /\ pass' = [pass EXCEPT !.received = TRUE]
    /\ host' = NextHost(host)
    /\ UNCHANGED <<args, seed, pc, failure, infini_gpu, token_buffer,
                   global_sum, global_count, report, consumed, dispatched,
                   allocs, live_buffers, input, bufs, device>>

\* slice.get_mapped_range(), the copy into a Vec and the end of
\* download_buffer (the staging buffer is dropped); the call panics on a
\* buffer that is not mapped
GetMappedRange ==
    /\ pc = "streaming" /\ host = "get_mapped_range"
    /\ IF device.map = "mapped"
       THEN /\ pass' = [pass EXCEPT !.result = device.staging.data]
            /\ bufs' = bufs \ {<<"staging", 0>>}
            /\ live_buffers' = Cardinality(bufs')
            /\ device' = [device EXCEPT !.map = "none"]
            /\ host' = NextHost(host)
            /\ UNCHANGED <<pc, failure, dispatched>>
       ELSE /\ pc' = "panic"
            /\ failure' = "map_refused"
            /\ dispatched' = Append(dispatched,
                                    PassRecord("map_refused", <<>>, TRUE))
            /\ UNCHANGED <<pass, bufs, live_buffers, device, host>>
    /\ UNCHANGED <<args, seed, infini_gpu, token_buffer, global_sum,
                   global_count, report, consumed, allocs, input, channel>>

\* forward returns Ok(result) and its buffers are dropped; back in main the
\* output is accumulated and the segment drained
Return ==
    /\ pc = "streaming" /\ host = "return"
    /\ bufs' = DropLocals(bufs)
    /\ live_buffers' = Cardinality(bufs')
    /\ device' = [IdleDevice EXCEPT
                     !.queue = device.queue,
                     !.map = IF device.map = "pending" THEN "pending"
                             ELSE "none"]
    /\ dispatched' = Append(dispatched, PassRecord("ok", pass.result, FALSE))
    /\ pass' = IdlePass(pass.no)
    /\ IF IndexInBounds(pass.result, Len(pass.seg), args.embed_dim)
       THEN /\ global_sum' = Accumulate(global_sum, pass.result,
                                        Len(pass.seg), args.embed_dim)
            /\ global_count' = AccumulateCount(global_count, Len(pass.seg))
            /\ token_buffer' = pass.rest
            /\ pc' = pass.next_pc
            /\ failure' = failure
            /\ host' = NextHost(host)
       ELSE /\ pc' = "panic"
            /\ failure' = "index_out_of_bounds"
            /\ UNCHANGED <<global_sum, global_count, token_buffer, host>>
    /\ report' = IF pc' = "done"
                 THEN FinalReport(global_sum', global_count', args.embed_dim)
                 ELSE report
    /\ UNCHANGED <<args, seed, infini_gpu, consumed, allocs, input, channel>>

NextPass ==
    \/ PushToken
    \/ StreamEnd
    \/ LineError
    \/ PassCreate
    \/ HeadStep
    \/ HeadsDone
    \/ Submit
    \/ MapAsync
    \/ DeviceExecute
    \/ Poll
    \/ Receive
    \/ GetMappedRange
    \/ Return

PassSpec == InitPass /\ [][NextPass]_vars

TypeOK ==
    /\ pc \in {"gpu_context", "convert", "build", "streaming", "done",
               "error", "panic"}
    /\ global_count \in Nat
    /\ Len(consumed) <= MaxLen
    /\ host \in {HostOrder[i] : i \in 1..Len(HostOrder)}
    /\ bufs \subseteq (MemoryBuffers(args.heads)
                          \cup {<<l, 0>> : l \in PassLabels})

\* ---- helpers of the properties ------------------------------------------
Last(s) == s[Len(s)]

RECURSIVE FlatTokens(_)
\* the tokens of the dispatched segments, in dispatch order
FlatTokens(ds) ==
    IF ds = <<>> THEN <<>>
    ELSE FlatTokens(SubSeq(ds, 1, Len(ds) - 1)) \o Last(ds).tokens

RECURSIVE FlatOutputs(_)
\* the output rows of the dispatched segments, in dispatch order
FlatOutputs(ds) ==
    IF ds = <<>> THEN <<>>
    ELSE FlatOutputs(SubSeq(ds, 1, Len(ds) - 1)) \o Last(ds).output

RECURSIVE FlatTotal(_, _, _)
\* column c (1-based) of the sum of the rows of the flat (rows x d) array out
FlatTotal(out, d, c) ==
    IF out = <<>> THEN 0
    ELSE FlatTotal(SubSeq(out, 1, Len(out) - 1), d, c)
         + (IF (Len(out) - 1) % d = c - 1 THEN Last(out) ELSE 0)

RowsTotal(out, d) == [c \in 1..d |-> FlatTotal(out, d, c)]

VecAdd(a, b) == [c \in 1..Len(a) |-> a[c] + b[c]]

\* a dispatch can only fail by the remainder by zero or a refused mapping
DispatchFailed == failure' \in {"rem_by_zero", "map_refused"}

\* ---- C1 -----------------------------------------------------------------
\* C1: with segment_size >= 1, handling a token that brings the buffer to
\* segment_size dispatches exactly one segment made of the first
\* segment_size buffered tokens, removes them from the buffer, adds the
\* segment's output to the running sum and stays in Streaming (a token that
\* does not fill the buffer dispatches nothing); hence between tokens the
\* buffer holds fewer than segment_size tokens.
C1_StreamingDispatch ==
    /\ [][(args.segment_size >= 1 /\ pc = "streaming" /\ consumed' # consumed) =>
            LET pushed == Append(token_buffer, Last(consumed'))
                n == args.segment_size
            IN  IF Len(pushed) >= n
                THEN /\ Len(dispatched') = Len(dispatched) + 1
                     /\ Last(dispatched').tokens = SubSeq(pushed, 1, n)
                     /\ DispatchFailed =>
                            (args.vocab_size = 0 \/ Last(dispatched').map_refused)
                     /\ \/ DispatchFailed
                        \/ /\ pc' = "streaming"
                           /\ token_buffer' = SubSeq(pushed, n + 1, Len(pushed))
                           /\ global_sum' = VecAdd(global_sum,
                                  RowsTotal(Last(dispatched').output,
                                            args.embed_dim))
                ELSE /\ dispatched' = dispatched
                     /\ token_buffer' = pushed
                     /\ global_sum' = global_sum
                     /\ pc' = "streaming"]_vars
    /\ []((args.segment_size >= 1 /\ pc = "streaming")
            => Len(token_buffer) < args.segment_size)

\* a full segment has been dispatched and the orchestrator is still streaming
C1_Witness ==
    /\ args.segment_size = 2 /\ pc = "streaming"
    /\ Len(dispatched) = 1 /\ Len(dispatched[1].tokens) = 2
    /\ Len(consumed) = 3 /\ Len(token_buffer) = 1
    /\ \E c \in 1..Len(global_sum) : global_sum[c] # 0

\* ---- C2 -----------------------------------------------------------------
\* C2: at end-of-stream a non-empty buffer (shorter than segment_size when
\* segment_size >= 1) is dispatched exactly once, its n output rows are
\* accumulated and the orchestrator reaches Done; an empty buffer leads
\* from Streaming to Done with no dispatch.
C2_EndOfStream ==
    [][(pc = "streaming" /\ consumed' = consumed /\ pc' \in {"done", "panic"}) =>
         IF token_buffer # <<>>
         THEN LET n == Len(token_buffer)
              IN  /\ args.segment_size >= 1 => n < args.segment_size
                  /\ Len(dispatched') = Len(dispatched) + 1
                  /\ Last(dispatched').tokens = token_buffer
                  /\ DispatchFailed =>
                         (args.vocab_size = 0 \/ Last(dispatched').map_refused)
                  /\ \/ DispatchFailed
                     \/ /\ pc' = "done"
                        /\ Len(Last(dispatched').output) = n * args.embed_dim
                        /\ global_count' = global_count + n
                        /\ global_sum' = VecAdd(global_sum,
                               RowsTotal(Last(dispatched').output,
                                         args.embed_dim))
         ELSE pc' = "done" /\ dispatched' = dispatched]_vars

\* a stream of 3 tokens with segment_size 2 is done: one full segment and a
\* remainder of one token were dispatched
C2_Witness ==
    /\ pc = "done" /\ args.segment_size = 2 /\ Len(consumed) = 3
    /\ Len(dispatched) = 2 /\ Len(dispatched[2].tokens) = 1
    /\ global_count = 3

\* ---- C3 -----------------------------------------------------------------
\* C3: in Done, with segment_size >= 1, the dispatched segments are the
\* stream cut in order (nothing dropped, repeated or reordered), the sum is
\* the sum of one output row per token, the count is the length of the
\* stream, and the reported average is that sum over that count.
C3_AverageOfAllTokens ==
    (pc = "done" /\ args.segment_size >= 1) =>
        /\ FlatTokens(dispatched) = consumed
        /\ global_count = Len(consumed)
        /\ Len(FlatOutputs(dispatched)) = Len(consumed) * args.embed_dim
        /\ global_sum = RowsTotal(FlatOutputs(dispatched), args.embed_dim)
        /\ (~args.gpu => FlatOutputs(dispatched) =
               EmbedSegment(consumed,
                   EmbeddingTable(seed, args.vocab_size, args.embed_dim),
                   args.vocab_size, args.embed_dim))
        /\ global_count > 0 =>
             /\ report.kind = "avg"
             /\ report.count = Len(consumed)
             /\ \A i \in 1..Len(report.avg) :
                    report.avg[i] = <<global_sum[i], Len(consumed)>>
             /\ Len(report.avg) = args.embed_dim

C3_Witness ==
    /\ pc = "done" /\ args.segment_size = 2 /\ ~args.gpu
    /\ Len(consumed) = 3 /\ report.kind = "avg" /\ report.count = 3
    /\ \E i \in 1..Len(report.avg) : report.avg[i][1] # 0

\* ---- C4 -----------------------------------------------------------------
\* C4: a finished stream of zero tokens reports the empty-result indicator
\* and dispatched nothing; an average is only ever reported with a count
\* that is not zero.
C4_ZeroTokens ==
    /\ (pc = "done" /\ consumed = <<>>) =>
           (report.kind = "empty" /\ dispatched = <<>>)
    /\ report.kind = "avg" => (global_count > 0 /\ report.count > 0)

C4_Witness == pc = "done" /\ consumed = <<>> /\ report.kind = "empty"
\* ---- the memory update the claims C5 and C6 expect ----------------------
\* What the comments of forward (infini_attention_gpu.rs:129-137) announce
\* and the design states: M <- M + sigma(K)^T V, z <- z + sum_i sigma(K[i]),
\* with Q, K, V the three chunks of width d_model / 3 of the segment.  These
\* definitions are the expectation the code is compared with, not a model
\* of code.
\* feature map sigma (rectification)
Sigma(x) == IF x > 0 THEN x ELSE 0

\* K[i][a] and V[i][b] of the (n x d) embedded segment x: the second and the
\* third chunk of width d \div 3 of row i (i, a, b 0-based)
KeyAt(x, d, i, a) == x[i * d + (d \div 3) + a + 1]
ValueAt(x, d, i, b) == x[i * d + 2 * (d \div 3) + b + 1]

RECURSIVE SigmaKtV(_, _, _, _, _)
\* (sigma(K)^T V)[a][b] over the first n rows of x
SigmaKtV(x, n, d, a, b) ==
    IF n = 0 THEN 0
    ELSE SigmaKtV(x, n - 1, d, a, b)
         + Sigma(KeyAt(x, d, n - 1, a)) * ValueAt(x, d, n - 1, b)

RECURSIVE SigmaKSum(_, _, _, _)
\* (sum_i sigma(K[i]))[a] over the first n rows of x
SigmaKSum(x, n, d, a) ==
    IF n = 0 THEN 0
    ELSE SigmaKSum(x, n - 1, d, a) + Sigma(KeyAt(x, d, n - 1, a))

\* M + sigma(K)^T V and z + sum_i sigma(K[i]) for one head
UpdatedMatrix(m, x, n, d) ==
    LET dk == d \div 3
    IN  [j \in 1..(dk * dk) |->
            m[j] + SigmaKtV(x, n, d, (j - 1) \div dk, (j - 1) % dk)]

UpdatedZ(z, x, n, d) ==
    [a \in 1..(d \div 3) |-> z[a] + SigmaKSum(x, n, d, a - 1)]

RECURSIVE AccumulatedMatrix(_, _)
\* the memory matrix of a head after the device segments of ds, from zero
AccumulatedMatrix(ds, d) ==
    IF ds = <<>> THEN Zeros((d \div 3) * (d \div 3))
    ELSE LET prev == AccumulatedMatrix(SubSeq(ds, 1, Len(ds) - 1), d)
         IN  IF Last(ds).gpu /\ Last(ds).ok
             THEN UpdatedMatrix(prev, Last(ds).x_seg, Len(Last(ds).tokens), d)
             ELSE prev

RECURSIVE AccumulatedZ(_, _)
AccumulatedZ(ds, d) ==
    IF ds = <<>> THEN Zeros(d \div 3)
    ELSE LET prev == AccumulatedZ(SubSeq(ds, 1, Len(ds) - 1), d)
         IN  IF Last(ds).gpu /\ Last(ds).ok
             THEN UpdatedZ(prev, Last(ds).x_seg, Len(Last(ds).tokens), d)
             ELSE prev

\* ---- C5 -----------------------------------------------------------------
\* C5: the memory a head's retrieval reads in the forward pass of segment k
\* is the memory as updated by the segments 1..k-1 and not by segment k
\* (all zero for the first segment).
C5_ReadBeforeWrite ==
    \A k \in 1..Len(dispatched) :
        dispatched[k].gpu =>
            \A h \in 1..args.heads :
                /\ dispatched[k].mem_before[1].memory_matrices[h] =
                       AccumulatedMatrix(SubSeq(dispatched, 1, k - 1),
                                         args.embed_dim)
                /\ dispatched[k].mem_before[1].memory_z[h] =
                       AccumulatedZ(SubSeq(dispatched, 1, k - 1),
                                    args.embed_dim)

\* ---- C6 -----------------------------------------------------------------
\* C6: a forward pass over a segment with key/value tensors K, V leaves each
\* head's memory matrix at its previous value plus sigma(K)^T V and its
\* normalizer at its previous value plus the sum over rows of sigma(K[i]).
C6_MemoryUpdate ==
    [][(Len(dispatched') = Len(dispatched) + 1
          /\ Last(dispatched').gpu /\ Last(dispatched').ok) =>
         LET x == Last(dispatched').x_seg
             n == Len(Last(dispatched').tokens)
         IN  \A h \in 1..args.heads :
                /\ infini_gpu'[1].memory_matrices[h] =
                       UpdatedMatrix(infini_gpu[1].memory_matrices[h], x, n,
                                     args.embed_dim)
                /\ infini_gpu'[1].memory_z[h] =
                       UpdatedZ(infini_gpu[1].memory_z[h], x, n,
                                args.embed_dim)]_vars

\* ---- C7 -----------------------------------------------------------------
\* C7: the output the device path returns for a segment equals the output
\* of the CPU reference path for the same tokens, table and configuration.
C7_BackendsAgree ==
    \A k \in 1..Len(dispatched) :
        (dispatched[k].gpu /\ dispatched[k].ok) =>
            dispatched[k].output =
                ProcessSegmentCpu(dispatched[k].tokens,
                    EmbeddingTable(seed, args.vocab_size, args.embed_dim),
                    args.vocab_size, args.embed_dim)

\* ---- C8 -----------------------------------------------------------------
\* C8: with a size parameter equal to zero the run never allocates a device
\* buffer, never dispatches a segment and never enters the streaming loop.
AnySizeZero ==
    \/ args.segment_size = 0
    \/ args.embed_dim = 0
    \/ args.vocab_size = 0
    \/ args.heads = 0

C8_ZeroSizeRejected ==
    AnySizeZero =>
        /\ allocs = 0
        /\ dispatched = <<>>
        /\ pc \notin {"streaming", "done"}
        /\ report.kind = "none"

\* ---- C9 -----------------------------------------------------------------
\* C9: with embed_dim not divisible by 3, on both backends, no device
\* buffer is ever allocated, no segment is ever dispatched, the streaming
\* loop is never entered, and the run that gets past its start-up stops on
\* the embed_dim assertion.
C9_EmbedDimChecked ==
    (args.embed_dim % 3 # 0) =>
        /\ allocs = 0 /\ live_buffers = 0
        /\ infini_gpu = <<>>
        /\ dispatched = <<>> /\ consumed = <<>>
        /\ report.kind = "none"
        /\ pc \in {"gpu_context", "convert", "build", "error", "panic"}
        /\ pc = "panic" => failure = "embed_dim_assert"
        /\ pc = "error" => failure \in {"DeviceUnavailable", "ConversionFailure"}

C9_Witness ==
    /\ args.embed_dim = 4 /\ args.gpu /\ args.heads = 2
    /\ pc = "panic" /\ failure = "embed_dim_assert"

\* ---- C10 ----------------------------------------------------------------
\* C10: a forward pass whose download mapping is refused yields no output,
\* is the last thing the run does, and no average or other final report is
\* ever printed, however many segments succeeded before it.
C10_DownloadFailureIsFatal ==
    \A k \in 1..Len(dispatched) :
        dispatched[k].map_refused =>
            /\ k = Len(dispatched)
            /\ ~dispatched[k].ok
            /\ dispatched[k].output = <<>>
            /\ pc = "panic" /\ failure = "map_refused"
            /\ report.kind = "none"
            /\ global_count = Len(FlatTokens(SubSeq(dispatched, 1, k - 1)))

C10_Witness ==
    /\ Len(dispatched) = 2 /\ dispatched[1].ok /\ dispatched[1].gpu
    /\ dispatched[2].map_refused
    /\ pc = "panic" /\ global_count > 0
\* ---- C17 ----------------------------------------------------------------
\* C17: when the converter process failed to start or exited with a
\* non-zero status, the run ends in an error and prints no final report
\* (it does not finish as if the stream had ended); the converter is
\* spawned at most once.
C17_ConversionFailureSurfaced ==
    /\ input.exit \in {"not_started", "nonzero"} =>
           (pc = "error" /\ report.kind = "none")
    /\ input.spawns <= 1
\* ---- C11 ----------------------------------------------------------------
\* C11: construction creates exactly num_heads head states, each with an
\* all-zero d_key x d_value memory matrix, an all-zero normalizer of length
\* d_key and a raw gate parameter 0; the gate the head loop computes from it
\* is exactly 0.5 (500 thousandths).
C11_InitialHeadStates ==
    /\ [][(pc = "build" /\ pc' = "streaming" /\ args.gpu) =>
            LET m == infini_gpu'[1]
                dk == args.embed_dim \div 3
            IN  /\ Len(infini_gpu') = 1
                /\ m.num_heads = args.heads
                /\ Len(m.memory_matrices) = args.heads
                /\ Len(m.memory_z) = args.heads
                /\ Len(m.gate) = args.heads
                /\ \A h \in 1..args.heads :
                      /\ Len(m.memory_matrices[h]) = dk * dk
                      /\ \A j \in 1..(dk * dk) : m.memory_matrices[h][j] = 0
                      /\ Len(m.memory_z[h]) = dk
                      /\ \A a \in 1..dk : m.memory_z[h][a] = 0
                      /\ m.gate[h] = 0
                      /\ GateVal(m.gate[h]) = 500]_vars
    /\ [](\A k \in 1..Len(dispatched) :
            dispatched[k].gpu =>
                /\ Len(dispatched[k].gates) = args.heads
                /\ \A h \in 1..args.heads : dispatched[k].gates[h] = 500)

\* a device run with two heads and 2 x 2 memory matrices has passed its
\* first forward
C11_Witness ==
    /\ args.gpu /\ args.heads = 2 /\ args.embed_dim = 6
    /\ Len(dispatched) = 1 /\ dispatched[1].gpu
    /\ Len(dispatched[1].gates) = 2

\* ---- C12 ----------------------------------------------------------------
\* C12: no step lowers a component of a head's normalizer z: after segment
\* k+1 every component is at least what it was after segment k.
C12_NormalizerMonotonic ==
    [][(infini_gpu # <<>> /\ infini_gpu' # <<>>) =>
         \A h \in 1..args.heads :
            \A a \in 1..(args.embed_dim \div 3) :
                infini_gpu'[1].memory_z[h][a] >= infini_gpu[1].memory_z[h][a]]_vars

\* two segments went through forward on a state with a normalizer
C12_Witness ==
    /\ args.gpu /\ args.heads >= 1 /\ args.embed_dim >= 3
    /\ Len(dispatched) = 2 /\ dispatched[1].ok /\ dispatched[2].ok
    /\ dispatched[2].gpu

\* ---- C16 ----------------------------------------------------------------
\* C16: the output of every dispatched segment of n tokens, full or short,
\* on either backend, holds exactly n * d_model values, and the
\* accumulation never reads past its end.
C16_OutputShape ==
    /\ \A k \in 1..Len(dispatched) :
          dispatched[k].ok =>
              Len(dispatched[k].output) =
                  Len(dispatched[k].tokens) * args.embed_dim
    /\ failure # "index_out_of_bounds"

\* a device run accumulated a full segment of 2 rows and a short one of 1
C16_Witness ==
    /\ pc = "done" /\ args.gpu /\ args.embed_dim = 3
    /\ Len(dispatched) = 2
    /\ Len(dispatched[1].tokens) = 2 /\ Len(dispatched[2].tokens) = 1
    /\ global_count = 3
\* ---- C13 ----------------------------------------------------------------
\* the forward passes that have started and not ended
InFlight == pass.no - Cardinality({k \in 1..Len(dispatched) : dispatched[k].gpu})

DeviceIdle == device.queue = <<>> /\ device.map # "pending" /\ channel = <<>>

\* C13: at most one segment is in flight; between segments nothing of a
\* segment is outstanding on the device; a segment starts, and a token is
\* accepted, only when no segment is in flight; and a segment ends only
\* after the head loop has gone over every head and the download of its
\* final output has been received and read.
C13_Sequential ==
    /\ [](InFlight \in {0, 1})
    /\ [](host = "main" => (InFlight = 0 /\ DeviceIdle))
    /\ [][pass.no' # pass.no =>
            (pass.no' = pass.no + 1 /\ host = "main" /\ InFlight = 0
             /\ DeviceIdle)]_vars
    /\ [][consumed' # consumed => (host = "main" /\ InFlight = 0)]_vars
    /\ [][(host # "main" /\ host' = "main") =>
            /\ pass.head_idx = args.heads
            /\ Len(pass.gates) = args.heads
            /\ pass.received
            /\ device.queue = <<>>
            /\ Len(pass.result) = Len(pass.seg) * args.embed_dim
            /\ Len(dispatched') = Len(dispatched) + 1]_vars

\* the second segment is in flight, its copy submitted and not yet executed
C13_Witness ==
    /\ pass.no = 2 /\ Len(dispatched) = 1 /\ dispatched[1].ok
    /\ host = "map_async" /\ device.queue # <<>>
    /\ args.heads = 2

\* ---- C14 ----------------------------------------------------------------
\* C14: in download_buffer the copy into the staging buffer is submitted
\* before the mapping is requested; the host passes the receive only when
\* the callback has delivered its result; and the mapped range is read only
\* after that, when the device has executed everything submitted, so the
\* data returned is the final output buffer as the copy found it.
C14_DownloadOrder ==
    /\ [][(device.map # "pending" /\ device'.map = "pending") =>
            (host = "map_async" /\ device.submitted >= 1)]_vars
    /\ [][(host = "receive" /\ host' # host) =>
            (channel # <<>> /\ channel[1] \in {"mapped", "refused"})]_vars
    /\ [][(host = "get_mapped_range" /\ host' # host) =>
            /\ pass.received
            /\ device.map = "mapped"
            /\ device.queue = <<>>
            /\ device.staging.copied
            /\ pass'.result = device.final_output
            /\ Len(pass'.result) = Len(pass.seg) * args.embed_dim]_vars

\* a download has returned the rows of a segment of two tokens
C14_Witness ==
    /\ host = "return" /\ pass.received
    /\ Len(pass.seg) = 2 /\ args.embed_dim = 3 /\ Len(pass.result) = 6

\* ---- C15 ----------------------------------------------------------------
\* C15: no step of a device run changes num_heads, d_key, d_value, d_model,
\* the number or the size of the memory matrices and normalizers, or a raw
\* gate parameter; a head's memory is written at most by the head loop's
\* iteration for that very head.
C15_ForwardFrame ==
    [][LET a == infini_gpu[1]
           b == infini_gpu'[1]
       IN  /\ Len(infini_gpu') = 1
           /\ b.num_heads = a.num_heads /\ b.d_key = a.d_key
           /\ b.d_value = a.d_value /\ b.d_model = a.d_model
           /\ Len(b.memory_matrices) = a.num_heads
           /\ Len(b.memory_z) = a.num_heads
           /\ b.gate = a.gate
           /\ \A h \in 1..a.num_heads :
                 /\ Len(b.memory_matrices[h]) = a.d_key * a.d_value
                 /\ Len(b.memory_z[h]) = a.d_key
                 /\ (b.memory_matrices[h] # a.memory_matrices[h]
                       \/ b.memory_z[h] # a.memory_z[h]) =>
                        (host = "heads" /\ h = pass.head_idx + 1)]_vars

\* the head loop of the second forward pass has gone over both heads
C15_Witness ==
    /\ pass.no = 2 /\ args.heads = 2 /\ args.embed_dim = 6
    /\ host = "heads" /\ pass.head_idx = 2

\* ---- C18 ----------------------------------------------------------------
\* C18: between two segments the live device buffers are exactly the
\* num_heads memory matrices and the num_heads normalizers, whatever the
\* number of segments processed; a buffer of forward or download_buffer is
\* alive only inside the pass that created it.
C18_BufferLifetime ==
    /\ [](host = "main" =>
            /\ bufs = {<<"mem_matrix", h>> : h \in 1..args.heads}
                          \cup {<<"mem_z", h>> : h \in 1..args.heads}
            /\ Cardinality(bufs) = 2 * args.heads
            /\ live_buffers = 2 * args.heads)
    /\ [][pass.no' # pass.no => \A x \in bufs : x[2] # 0]_vars
    /\ []({<<"mem_matrix", h>> : h \in 1..args.heads}
              \cup {<<"mem_z", h>> : h \in 1..args.heads} \subseteq bufs)

\* inside the second pass the eight buffers of the pass are alive next to
\* the four of the two heads
C18_Witness ==
    /\ pass.no = 2 /\ args.heads = 2 /\ host = "submit"
    /\ Cardinality(bufs) = 12
    /\ \A l \in {"x_seg_buf", "q_buf", "k_buf", "v_buf", "local_context_buf",
                 "memory_context_buf", "final_output_buf", "staging"} :
           <<l, 0>> \in bufs
====
